---- MODULE Spec2Model ----
(***************************************************************************)
(* The chat client (ChatPage / AIAssistant handleSubmit) and the streaming *)
(* relay endpoint (POST /demo/api/tanchat) of ntl-ts-v4.                   *)
(*                                                                         *)
(* Strings are sequences of one-character strings.  Bytes on the wire are  *)
(* one-element strings too: an ASCII character is its own byte, the        *)
(* two-byte character U+00E9, written "E9", is the bytes "C3" "A9".  In    *)
(* serialized JSON the byte "{" stands for the fixed head of a delta record, *)
(*   {"type":"content_block_delta","delta":{"type":"text_delta","text":"   *)
(* and "}" for its fixed tail, "}} ; the text between them is escaped as   *)
(* JSON.stringify escapes it.                                              *)
(***************************************************************************)
EXTENDS Integers, Sequences, FiniteSets, TLC

\* ------------------------------------------------------------------ bounds
\* Turns the chat client starts.
MaxTurns == 2
\* Events the upstream provider emits on one stream.
MaxEvents == 2
\* Messages in the body of a request from an arbitrary HTTP client (SpecRelay).
MaxHistory == 2

\* null, where the other values are records
Null == [null |-> TRUE]
Undefined == "undefined"
LF == "\n"

\* Characters an upstream text delta is made of.
TextChars == {"a", LF, "E9"}

RECURSIVE SeqsUpTo(_, _)
SeqsUpTo(S, n) ==
  IF n = 0 THEN {<<>>}
  ELSE LET shorter == SeqsUpTo(S, n - 1)
       IN  shorter \cup {Append(s, c) : s \in shorter, c \in S}

\* Texts of upstream text deltas: empty, plain, a newline (escaped by JSON,
\* and white space to trim), a two-byte character.
TextSet == {<<>>} \cup {<<c>> : c \in TextChars}

\* Events of the upstream provider's stream; only the first kind is relayed.
EventSet ==
  {[type |-> "content_block_delta", delta |-> [type |-> "text_delta", text |-> t]] :
     t \in TextSet}
  \cup {[type |-> "content_block_delta", delta |-> [type |-> "input_json_delta", text |-> <<"a">>]],
        [type |-> "message_stop", delta |-> Undefined]}

\* What the user types into the textarea.
InputSet == {<<>>, <<" ">>, <<" ", "h">>}

\* 'Sorry, I encountered an error', written as one character, and the rest of
\* the client's apology, '. Please check your API key and try again.'
Sentinel == <<"S">>

\* An apology that does not begin with the sentinel.
ApologyTextReworded == <<"s", ".">>

ApologyText == Sentinel \o <<".">>

\* ----------------------------------------------------------- string helpers
IsSpace(c) == c \in {" ", LF}

RECURSIVE TrimStart(_)
TrimStart(s) ==
  IF s # <<>> /\ IsSpace(Head(s)) THEN TrimStart(Tail(s)) ELSE s

RECURSIVE TrimEnd(_)
TrimEnd(s) ==
  IF s # <<>> /\ IsSpace(s[Len(s)]) THEN TrimEnd(SubSeq(s, 1, Len(s) - 1)) ELSE s

\* String.prototype.trim
Trim(s) == TrimEnd(TrimStart(s))

\* String.prototype.startsWith
StartsWith(s, p) == Len(s) >= Len(p) /\ SubSeq(s, 1, Len(p)) = p

\* String.prototype.includes, on error messages written as word sequences
Includes(s, w) == \E i \in 1..Len(s) : s[i] = w

\* String.prototype.split on the newline character
RECURSIVE Split(_)
Split(s) ==
  IF \A i \in 1..Len(s) : s[i] # LF THEN <<s>>
  ELSE LET i == CHOOSE k \in 1..Len(s) : s[k] = LF /\ \A j \in 1..(k - 1) : s[j] # LF
       IN  <<SubSeq(s, 1, i - 1)>> \o Split(SubSeq(s, i + 1, Len(s)))

RECURSIVE Concat(_)
Concat(ss) == IF ss = <<>> THEN <<>> ELSE Head(ss) \o Concat(Tail(ss))

\* ------------------------------------------------- UTF-8 and JSON conversion
\* TextEncoder.encode
RECURSIVE Encode(_)
Encode(s) ==
  IF s = <<>> THEN <<>>
  ELSE (IF Head(s) = "E9" THEN <<"C3", "A9">> ELSE <<Head(s)>>) \o Encode(Tail(s))

\* TextDecoder.decode(value, {stream: true}) applied to the bytes b, which start
\* with whatever incomplete character the previous call held back.
RECURSIVE Decode(_)
Decode(b) ==
  IF b = <<>> THEN [text |-> <<>>, pending |-> <<>>]
  ELSE IF b = <<"C3">> THEN [text |-> <<>>, pending |-> b]
  ELSE IF Head(b) = "C3" /\ b[2] = "A9"
       THEN LET r == Decode(Tail(Tail(b)))
            IN  [text |-> <<"E9">> \o r.text, pending |-> r.pending]
  ELSE IF Head(b) \in {"C3", "A9"}
       THEN LET r == Decode(Tail(b))
            IN  [text |-> <<"FFFD">> \o r.text, pending |-> r.pending]
  ELSE LET r == Decode(Tail(b))
       IN  [text |-> <<Head(b)>> \o r.text, pending |-> r.pending]

\* The string escapes of JSON.stringify
RECURSIVE Escape(_)
Escape(s) ==
  IF s = <<>> THEN <<>>
  ELSE (CASE Head(s) = LF -> <<"\\", "n">>
          [] Head(s) = "\\" -> <<"\\", "\\">>
          [] OTHER -> <<Head(s)>>) \o Escape(Tail(s))

\* JSON.stringify of a delta record
Stringify(chunk) == <<"{">> \o Escape(chunk.delta.text) \o <<"}">>

\* The body of a JSON string literal, unescaped; ok is FALSE where JSON.parse
\* throws (a raw control character, a bad escape, an unescaped quote).
RECURSIVE Unescape(_)
Unescape(s) ==
  IF s = <<>> THEN [ok |-> TRUE, text |-> <<>>]
  ELSE IF Head(s) \in {LF, "{", "}"} THEN [ok |-> FALSE, text |-> <<>>]
  ELSE IF Head(s) = "\\"
       THEN IF Len(s) >= 2 /\ s[2] \in {"n", "\\"}
            THEN LET r == Unescape(Tail(Tail(s)))
                 IN  [ok |-> r.ok, text |-> <<IF s[2] = "n" THEN LF ELSE "\\">> \o r.text]
            ELSE [ok |-> FALSE, text |-> <<>>]
  ELSE LET r == Unescape(Tail(s))
       IN  [ok |-> r.ok, text |-> <<Head(s)>> \o r.text]

\* JSON.parse of one line: whitespace around the value is allowed.
JSONParse(line) ==
  LET t == Trim(line)
      inner == Unescape(SubSeq(t, 2, Len(t) - 1))
  IN  IF Len(t) >= 2 /\ Head(t) = "{" /\ t[Len(t)] = "}" /\ inner.ok
      THEN [ok |-> TRUE, type |-> "content_block_delta", text |-> inner.text]
      ELSE [ok |-> FALSE, type |-> Undefined, text |-> <<>>]

\* ---------------------------------------------------------------- the state
VARIABLES
  \* chat client: React state
  messages, input, isLoading, pendingMessage,
  \* what the last render gave handleSubmit's closure and the submit button
  rendered,
  \* chat client: the running handleSubmit call
  pc, userMessage, newMessage, buffer, decoder,
  \* chat client: bookkeeping of the current turn
  turns, active, lastSubmit, posted, parsed, bytesRead, reassembled, outcome,
  \* HTTP exchange
  request, response, wire,
  \* relay endpoint
  apiKey, stream, upstreamCalled, upstreamMessages, delivered, written, received,
  \* relay endpoint: the error the try block of POST threw, if any
  thrown

clientVars == <<messages, input, isLoading, pendingMessage, rendered,
                pc, userMessage, newMessage, buffer, decoder,
                turns, active, lastSubmit, posted, parsed, bytesRead, reassembled, outcome>>
netVars == <<request, response, wire>>
serverVars == <<apiKey, stream, upstreamCalled, upstreamMessages, delivered, written,
                received, thrown>>
vars == <<clientVars, netVars, serverVars>>

\* ------------------------------------------------------- the relay endpoint
\* Errors are {name, message}; a message is a sequence of phrases.
MissingKeyError ==
  [name |-> "Error", message |-> <<"Missing API key:", "Please set ANTHROPIC_API_KEY">>]
SyntaxError == [name |-> "SyntaxError", message |-> <<"Unexpected token">>]
TypeError == [name |-> "TypeError", message |-> <<"Cannot read properties of undefined">>]

\* No error thrown
NoError == [name |-> "none", message |-> <<>>]

\* Errors the upstream provider's SDK raises.
UpstreamErrors ==
  {[name |-> n, message |-> m] :
     n \in {"Error", "APIConnectionError"},
     m \in {<<"rate limit">>, <<"Connection error">>, <<"authentication">>, <<"overloaded">>,
            <<"rate limit", "Connection error">>, <<"Connection error", "authentication">>}}

\* FormattedMessages with the content mapped as it came, not trimmed.
FormattedMessagesUntrimmed(msgs) ==
  LET keep(msg) == Trim(msg.content) # <<>> /\ ~StartsWith(msg.content, Sentinel)
      fmt(msg) == [role |-> msg.role, content |-> msg.content]
  IN  [i \in 1..Len(SelectSeq(msgs, keep)) |-> fmt(SelectSeq(msgs, keep)[i])]

\* messages.filter(...).map(...)
FormattedMessages(msgs) ==
  LET keep(msg) == Trim(msg.content) # <<>> /\ ~StartsWith(msg.content, Sentinel)
      fmt(msg) == [role |-> msg.role, content |-> Trim(msg.content)]
  IN  [i \in 1..Len(SelectSeq(msgs, keep)) |-> fmt(SelectSeq(msgs, keep)[i])]

\* The catch block of POST: the JSON error response for a thrown error.
\* ErrorResponse that classifies by the message alone, ignoring error.name.
ErrorResponseByMessageOnly(error) ==
  LET rate == Includes(error.message, "rate limit")
      conn == Includes(error.message, "Connection error")
      auth == Includes(error.message, "authentication")
  IN  [type |-> "json",
       status |-> IF rate THEN 500 ELSE IF conn THEN 503 ELSE IF auth THEN 401 ELSE 500,
       error |-> IF rate THEN <<"Rate limit exceeded. Please try again in a moment.">>
                 ELSE IF conn THEN <<"Connection to Anthropic API failed.">>
                 ELSE IF auth THEN <<"Authentication failed.">>
                 ELSE error.message,
       details |-> error.name]

\* ErrorResponse that tests for a connection failure before the rate limit.
ErrorResponseConnectionFirst(error) ==
  LET rate == Includes(error.message, "rate limit")
      conn == Includes(error.message, "Connection error") \/ error.name = "APIConnectionError"
      auth == Includes(error.message, "authentication")
  IN  [type |-> "json",
       status |-> IF conn THEN 503 ELSE IF rate THEN 500 ELSE IF auth THEN 401 ELSE 500,
       error |-> IF conn THEN <<"Connection to Anthropic API failed.">>
                 ELSE IF rate THEN <<"Rate limit exceeded. Please try again in a moment.">>
                 ELSE IF auth THEN <<"Authentication failed.">>
                 ELSE error.message,
       details |-> error.name]

ErrorResponse(error) ==
  LET rate == Includes(error.message, "rate limit")
      conn == Includes(error.message, "Connection error") \/ error.name = "APIConnectionError"
      auth == Includes(error.message, "authentication")
  IN  [type |-> "json",
       status |-> IF rate THEN 500 ELSE IF conn THEN 503 ELSE IF auth THEN 401 ELSE 500,
       error |-> IF rate THEN <<"Rate limit exceeded. Please try again in a moment.">>
                 ELSE IF conn THEN <<"Connection to Anthropic API failed.">>
                 ELSE IF auth THEN <<"Authentication failed.">>
                 ELSE error.message,
       details |-> error.name]

NoValidMessages ==
  [type |-> "json", status |-> 400, error |-> <<"No valid messages to send">>,
   details |-> Undefined]

StreamResponse ==
  [type |-> "stream", status |-> 200, error |-> <<>>, details |-> Undefined]

\* Handle without the check for an empty filtered list.
HandleWithoutEmptyCheck(req, key, setup) ==
  LET formattedMessages == FormattedMessages(req.messages)
      answer(resp, called, opened) ==
        [response |-> resp, called |-> called, opened |-> opened,
         sent |-> IF called THEN formattedMessages ELSE <<>>, thrown |-> NoError]
      throw(error, called) ==
        [response |-> ErrorResponse(error), called |-> called, opened |-> FALSE,
         sent |-> IF called THEN formattedMessages ELSE <<>>, thrown |-> error]
  IN  IF req.body = "invalid" THEN throw(SyntaxError, FALSE)
      ELSE IF ~key THEN throw(MissingKeyError, FALSE)
      ELSE IF req.body # "messages" THEN throw(TypeError, FALSE)
      ELSE IF setup # NoError THEN throw(setup, TRUE)
      ELSE answer(StreamResponse, TRUE, TRUE)

\* Handle with the message list validated before the API key is looked at.
HandleValidatesFirst(req, key, setup) ==
  LET formattedMessages == FormattedMessages(req.messages)
      answer(resp, called, opened) ==
        [response |-> resp, called |-> called, opened |-> opened,
         sent |-> IF called THEN formattedMessages ELSE <<>>, thrown |-> NoError]
      throw(error, called) ==
        [response |-> ErrorResponse(error), called |-> called, opened |-> FALSE,
         sent |-> IF called THEN formattedMessages ELSE <<>>, thrown |-> error]
  IN  IF req.body = "invalid" THEN throw(SyntaxError, FALSE)
      ELSE IF req.body # "messages" THEN throw(TypeError, FALSE)
      ELSE IF formattedMessages = <<>> THEN answer(NoValidMessages, FALSE, FALSE)
      ELSE IF ~key THEN throw(MissingKeyError, FALSE)
      ELSE IF setup # NoError THEN throw(setup, TRUE)
      ELSE answer(StreamResponse, TRUE, TRUE)

\* The try block of POST for the request req, with the API key key (set or
\* not) and with setup, the error anthropic.messages.stream throws if it is
\* called (NoError: none): the response returned, whether the upstream call
\* was made, with which messages, and whether the outgoing stream was opened.
Handle(req, key, setup) ==
  LET formattedMessages == FormattedMessages(req.messages)
      answer(resp, called, opened) ==
        [response |-> resp, called |-> called, opened |-> opened,
         sent |-> IF called THEN formattedMessages ELSE <<>>, thrown |-> NoError]
      throw(error, called) ==
        [response |-> ErrorResponse(error), called |-> called, opened |-> FALSE,
         sent |-> IF called THEN formattedMessages ELSE <<>>, thrown |-> error]
  IN  IF req.body = "invalid" THEN throw(SyntaxError, FALSE)
      ELSE IF ~key THEN throw(MissingKeyError, FALSE)
      ELSE IF req.body # "messages" THEN throw(TypeError, FALSE)
      ELSE IF formattedMessages = <<>> THEN answer(NoValidMessages, FALSE, FALSE)
      ELSE IF setup # NoError THEN throw(setup, TRUE)
      ELSE answer(StreamResponse, TRUE, TRUE)

\* The POST handler up to the Response it returns.
POST ==
  /\ request # Null
  /\ \E setup \in {NoError} \cup UpstreamErrors :
       LET r == Handle(request, apiKey, setup)
       IN  /\ response' = r.response
           /\ upstreamCalled' = r.called
           /\ upstreamMessages' = r.sent
           /\ stream' = IF r.opened THEN "open" ELSE "none"
           /\ thrown' = r.thrown
  /\ received' = request
  /\ request' = Null
  /\ wire' = <<>>
  /\ delivered' = <<>>
  /\ written' = <<>>
  /\ UNCHANGED <<clientVars, apiKey>>

\* Relay that looks at the event's type only, not at the delta's.
RelayAnyDelta(event) ==
  IF event.type = "content_block_delta"
  THEN LET chunk == [type |-> "content_block_delta",
                     delta |-> [type |-> "text_delta", text |-> event.delta.text]]
       IN  Encode(Stringify(chunk) \o <<LF>>)
  ELSE <<>>

\* The body of the for-await loop in transformedStream.start, for one event.
Relay(event) ==
  IF event.type = "content_block_delta" /\ event.delta.type = "text_delta"
  THEN LET chunk == [type |-> "content_block_delta",
                     delta |-> [type |-> "text_delta", text |-> event.delta.text]]
       IN  Encode(Stringify(chunk) \o <<LF>>)
  ELSE <<>>

UpstreamEvent ==
  /\ stream = "open"
  /\ Len(delivered) < MaxEvents
  /\ \E event \in EventSet :
       /\ delivered' = Append(delivered, event)
       /\ wire' = wire \o Relay(event)
       /\ written' = written \o Relay(event)
  /\ UNCHANGED <<clientVars, request, response, apiKey, stream, upstreamCalled,
                 upstreamMessages, received, thrown>>

\* The upstream stream completes: controller.close()
UpstreamDone ==
  /\ stream = "open"
  /\ stream' = "closed"
  /\ UNCHANGED <<clientVars, netVars, apiKey, upstreamCalled, upstreamMessages,
                 delivered, written, received, thrown>>

\* UpstreamError that enqueues a line for the error before aborting the body.
UpstreamErrorWritesLine ==
  /\ stream = "open"
  /\ stream' = "errored"
  /\ written' = written \o Encode(<<"{", "}", LF>>)
  /\ wire' = wire \o Encode(<<"{", "}", LF>>)
  /\ UNCHANGED <<clientVars, request, response, apiKey, upstreamCalled, upstreamMessages,
                 delivered, received, thrown>>

\* The upstream stream throws: controller.error(error).  Chunks still queued
\* in the ReadableStream are dropped, chunks already handed to the connection
\* may still arrive.
UpstreamError ==
  /\ stream = "open"
  /\ stream' = "errored"
  /\ \E k \in 0..Len(wire) : wire' = SubSeq(wire, 1, k)
  /\ UNCHANGED <<clientVars, request, response, apiKey, upstreamCalled, upstreamMessages,
                 delivered, written, received, thrown>>

\* The exchange is over: the response is gone from the connection and the
\* endpoint keeps nothing of a request it has answered.
Forget ==
  /\ request' = Null
  /\ response' = Null
  /\ wire' = <<>>
  /\ stream' = "none"
  /\ upstreamCalled' = FALSE
  /\ upstreamMessages' = <<>>
  /\ delivered' = <<>>
  /\ written' = <<>>
  /\ received' = Null
  /\ thrown' = NoError
  /\ UNCHANGED apiKey

\* Bodies of requests sent by arbitrary HTTP clients.
ContentSet == {<<>>, <<" ">>, <<" ", "a", " ">>, <<" ">> \o ApologyText}
MessageSet ==
  {[id |-> 0, role |-> "user", content |-> c] : c \in ContentSet}
  \cup {[id |-> 1, role |-> "assistant", content |-> c] : c \in {<<"a">>, ApologyText}}
RequestSet ==
  {[body |-> "messages", messages |-> m] : m \in SeqsUpTo(MessageSet, MaxHistory)}
  \cup {[body |-> "invalid", messages |-> <<>>], [body |-> "nomessages", messages |-> <<>>]}

\* An HTTP client other than the chat page posts a request.
Receive ==
  /\ request = Null /\ response = Null
  /\ \E r \in RequestSet : request' = r
  /\ UNCHANGED <<clientVars, response, wire, serverVars>>

\* That client takes the response and whatever the body carried.
Drain ==
  /\ response # Null
  /\ stream # "open"
  /\ Forget
  /\ UNCHANGED clientVars

\* ----------------------------------------------------------- the chat client
\* Date.now() during the turn being started
Now == 2 * turns

ErrorMessage(id) == [id |-> id, role |-> "assistant", content |-> ApologyText]

\* Snapshot of a callback whose dependency list lacks messages: the closure
\* keeps the history of the first render.
SnapshotStaleMessages(in, loading, msgs) ==
  [input |-> in, isLoading |-> loading, messages |-> <<>>]

\* What a render hands to the closure of handleSubmit and to the button.
Snapshot(in, loading, msgs) == [input |-> in, isLoading |-> loading, messages |-> msgs]

\* Returns without the isLoading test.
ReturnsOnBlankOnly(closure) == Trim(closure.input) = <<>>

\* The guard at the top of handleSubmit, on the closure's values.
Returns(closure) == Trim(closure.input) = <<>> \/ closure.isLoading

\* handleSubmit from its first line to the fetch call.  The state updates of
\* a discrete event are rendered before the next event is handled.
HandleSubmit ==
  IF Returns(rendered)
  THEN /\ lastSubmit' = IF Trim(rendered.input) = <<>> THEN "refused: blank"
                        ELSE "refused: loading"
       /\ UNCHANGED <<messages, input, isLoading, pendingMessage, rendered,
                      pc, userMessage, newMessage, buffer, decoder,
                      turns, active, posted, parsed, bytesRead, reassembled, outcome,
                      netVars, serverVars>>
  ELSE LET currentInput == rendered.input
           message == [id |-> Now, role |-> "user", content |-> Trim(currentInput)]
       IN  /\ input' = <<>>
           /\ isLoading' = TRUE
           /\ userMessage' = message
           /\ messages' = Append(messages, message)
           /\ posted' = Append(rendered.messages, message)
           /\ request' = [body |-> "messages", messages |-> Append(rendered.messages, message)]
           /\ rendered' = Snapshot(<<>>, TRUE, Append(messages, message))
           /\ pc' = "fetching"
           /\ turns' = turns + 1
           /\ active' = active + 1
           /\ lastSubmit' = "accepted"
           /\ outcome' = "none"
           \* the line buffer of the call that ended is gone with this call
           /\ buffer' = <<>>
           /\ UNCHANGED <<pendingMessage, newMessage, decoder, parsed, bytesRead,
                          reassembled, response, wire, serverVars>>

\* The textarea's onChange
Type ==
  /\ \E v \in InputSet \ {input} :
       /\ input' = v
       /\ rendered' = [rendered EXCEPT !.input = v]
  /\ UNCHANGED <<messages, isLoading, pendingMessage, pc, userMessage, newMessage, buffer,
                 decoder, turns, active, lastSubmit, posted, parsed, bytesRead, reassembled, outcome,
                 netVars, serverVars>>

\* React renders the state updates made after an await.
Render ==
  /\ rendered # Snapshot(input, isLoading, messages)
  /\ rendered' = Snapshot(input, isLoading, messages)
  /\ UNCHANGED <<messages, input, isLoading, pendingMessage, pc, userMessage, newMessage,
                 buffer, decoder, turns, active, lastSubmit, posted, parsed, bytesRead,
                 reassembled, outcome, netVars, serverVars>>

\* The submit button, which is disabled on the same condition as the guard.
SubmitButton ==
  /\ turns < MaxTurns
  /\ ~(Trim(rendered.input) = <<>> \/ rendered.isLoading)
  /\ HandleSubmit

\* Enter in the textarea calls handleSubmit whatever the button's state.
KeyEnter ==
  /\ turns < MaxTurns
  /\ HandleSubmit

\* Fail that also keeps the partial reply: the catch block appends the
\* message being streamed before the apology.
FailAppendsPartial(kind) ==
  /\ messages' = IF pc = "reading" /\ newMessage.content # <<>>
                  THEN Append(Append(messages, newMessage),
                              ErrorMessage(userMessage.id + 1))
                  ELSE Append(messages, ErrorMessage(userMessage.id + 1))
  /\ isLoading' = FALSE
  /\ pc' = "idle"
  /\ active' = active - 1
  /\ outcome' = kind
  /\ buffer' = buffer
  /\ decoder' = <<>>
  /\ parsed' = <<>>
  /\ bytesRead' = <<>>
  /\ reassembled' = FALSE
  /\ Forget
  /\ UNCHANGED <<input, pendingMessage, rendered, userMessage, newMessage, turns,
                 lastSubmit, posted>>

\* Fail without the finally block: isLoading stays set.
FailWithoutFinally(kind) ==
  /\ messages' = Append(messages, ErrorMessage(userMessage.id + 1))
  /\ pc' = "idle"
  /\ active' = active - 1
  /\ outcome' = kind
  /\ buffer' = buffer
  /\ decoder' = <<>>
  /\ parsed' = <<>>
  /\ bytesRead' = <<>>
  /\ reassembled' = FALSE
  /\ Forget
  /\ UNCHANGED <<input, isLoading, pendingMessage, rendered, userMessage, newMessage, turns,
                 lastSubmit, posted>>

\* The catch and finally blocks of handleSubmit, which ends the call and the
\* exchange with it.
Fail(kind) ==
  /\ messages' = Append(messages, ErrorMessage(userMessage.id + 1))
  /\ isLoading' = FALSE
  /\ pc' = "idle"
  /\ active' = active - 1
  /\ outcome' = kind
  /\ buffer' = buffer
  /\ decoder' = <<>>
  /\ parsed' = <<>>
  /\ bytesRead' = <<>>
  /\ reassembled' = FALSE
  /\ Forget
  /\ UNCHANGED <<input, pendingMessage, rendered, userMessage, newMessage, turns,
                 lastSubmit, posted>>

\* fetch resolves with the endpoint's response.
FetchResolve ==
  /\ pc = "fetching"
  /\ response # Null
  /\ IF ~(response.status \in 200..299)
     THEN Fail("not ok")
     ELSE /\ pc' = "reading"
          /\ newMessage' = [id |-> userMessage.id + 1, role |-> "assistant", content |-> <<>>]
          /\ buffer' = <<>>
          /\ decoder' = <<>>
          /\ parsed' = <<>>
          /\ bytesRead' = <<>>
          /\ reassembled' = FALSE
          /\ UNCHANGED <<messages, input, isLoading, pendingMessage, rendered, userMessage,
                         turns, active, lastSubmit, posted, outcome, netVars, serverVars>>

\* fetch rejects (the network fails), or resolves with a response that has
\* no body to read (an intermediary answers with an empty success).
FetchFail ==
  /\ pc = "fetching"
  /\ \E kind \in {"fetch rejected", "no reader"} : Fail(kind)

\* Lines with the try around the whole for loop: a line that fails to parse
\* ends the processing of the read.
RECURSIVE LinesStopAtBadLine(_, _)
LinesStopAtBadLine(lines, content) ==
  IF lines = <<>> THEN [content |-> content, published |-> FALSE, parsed |-> <<>>]
  ELSE LET line == Head(lines)
           json == JSONParse(line)
           appends == Trim(line) # <<>> /\ json.ok /\ json.type = "content_block_delta"
                      /\ json.text # <<>>
           rest == LinesStopAtBadLine(Tail(lines),
                                      IF appends THEN content \o json.text ELSE content)
       IN  IF Trim(line) # <<>> /\ ~json.ok
           THEN [content |-> content, published |-> FALSE, parsed |-> <<line>>]
           ELSE [content |-> rest.content,
                 published |-> appends \/ rest.published,
                 parsed |-> (IF Trim(line) # <<>> THEN <<line>> ELSE <<>>) \o rest.parsed]

\* The for loop over the complete lines of one read.
RECURSIVE Lines(_, _)
Lines(lines, content) ==
  IF lines = <<>> THEN [content |-> content, published |-> FALSE, parsed |-> <<>>]
  ELSE LET line == Head(lines)
           json == JSONParse(line)
           appends == Trim(line) # <<>> /\ json.ok /\ json.type = "content_block_delta"
                      /\ json.text # <<>>
           rest == Lines(Tail(lines), IF appends THEN content \o json.text ELSE content)
       IN  [content |-> rest.content,
            published |-> appends \/ rest.published,
            parsed |-> (IF Trim(line) # <<>> THEN <<line>> ELSE <<>>) \o rest.parsed]

\* Chunk without lines.pop(): the text after the last newline is processed
\* as a line and nothing is carried over.
ChunkWithoutPop(content, buf, dec, value) ==
  LET decoded == Decode(dec \o value)
      lines == Split(buf \o decoded.text)
      done == Lines(lines, content)
  IN  [content |-> done.content, published |-> done.published, parsed |-> done.parsed,
       buffer |-> <<>>, decoder |-> decoded.pending]

\* Chunk with the lines split from the newly decoded text alone.
ChunkWithoutCarry(content, buf, dec, value) ==
  LET decoded == Decode(dec \o value)
      lines == Split(decoded.text)
      done == Lines(SubSeq(lines, 1, Len(lines) - 1), content)
  IN  [content |-> done.content, published |-> done.published, parsed |-> done.parsed,
       buffer |-> lines[Len(lines)], decoder |-> decoded.pending]

\* The body of the while loop for a read that returned the bytes value.
Chunk(content, buf, dec, value) ==
  LET decoded == Decode(dec \o value)
      lines == Split(buf \o decoded.text)
      done == Lines(SubSeq(lines, 1, Len(lines) - 1), content)
  IN  [content |-> done.content, published |-> done.published, parsed |-> done.parsed,
       buffer |-> lines[Len(lines)], decoder |-> decoded.pending]

\* reader.read() resolves with some of the bytes in flight.
ReadChunk ==
  /\ pc = "reading"
  /\ \E n \in 1..Len(wire) :
       LET r == Chunk(newMessage.content, buffer, decoder, SubSeq(wire, 1, n))
       IN  /\ wire' = SubSeq(wire, n + 1, Len(wire))
           /\ bytesRead' = bytesRead \o SubSeq(wire, 1, n)
           /\ newMessage' = [newMessage EXCEPT !.content = r.content]
           /\ pendingMessage' =
                IF r.published THEN [newMessage EXCEPT !.content = r.content]
                ELSE pendingMessage
           /\ buffer' = r.buffer
           /\ decoder' = r.decoder
           /\ parsed' = parsed \o r.parsed
           \* a line begun in an earlier read was completed and parsed in this one
           /\ reassembled' = (reassembled \/ (Trim(buffer) # <<>> /\ r.parsed # <<>>))
  /\ UNCHANGED <<messages, input, isLoading, rendered, pc, userMessage, turns, active,
                 lastSubmit, posted, outcome, request, response, serverVars>>

\* Commits on the content as it is, white space included.
CommitsUntrimmed(message) == message.content # <<>>

\* Whether the finished message goes into the history.
Commits(message) == Trim(message.content) # <<>>

\* reader.read() resolves with done: the code after the while loop.
ReadDone ==
  /\ pc = "reading"
  /\ wire = <<>>
  /\ stream = "closed"
  /\ pendingMessage' = Null
  /\ messages' = IF Commits(newMessage) THEN Append(messages, newMessage) ELSE messages
  /\ outcome' = IF Commits(newMessage) THEN "committed" ELSE "discarded"
  /\ isLoading' = FALSE
  /\ pc' = "idle"
  /\ active' = active - 1
  /\ buffer' = buffer
  /\ decoder' = <<>>
  /\ parsed' = <<>>
  /\ bytesRead' = <<>>
  /\ reassembled' = FALSE
  /\ Forget
  /\ UNCHANGED <<input, rendered, userMessage, newMessage, turns, lastSubmit, posted>>

\* reader.read() rejects: the endpoint aborted the body, or the connection
\* was lost.
ReadError ==
  /\ pc = "reading"
  /\ \E cause \in {"aborted", "lost"} :
       /\ cause = "aborted" => (stream = "errored" /\ wire = <<>>)
       /\ Fail("read failed")

\* ------------------------------------------------------- the specifications
Init ==
  /\ messages = <<>>
  /\ input = <<>>
  /\ isLoading = FALSE
  /\ pendingMessage = Null
  /\ rendered = Snapshot(<<>>, FALSE, <<>>)
  /\ pc = "idle"
  /\ userMessage = Null
  /\ newMessage = Null
  /\ buffer = <<>>
  /\ decoder = <<>>
  /\ turns = 0
  /\ active = 0
  /\ lastSubmit = "none"
  /\ posted = <<>>
  /\ parsed = <<>>
  /\ bytesRead = <<>>
  /\ reassembled = FALSE
  /\ outcome = "none"
  /\ request = Null
  /\ response = Null
  /\ wire = <<>>
  /\ apiKey \in BOOLEAN
  /\ stream = "none"
  /\ upstreamCalled = FALSE
  /\ upstreamMessages = <<>>
  /\ delivered = <<>>
  /\ written = <<>>
  /\ received = Null
  /\ thrown = NoError

\* The chat page talking to the endpoint.
Next ==
  \/ Type
  \/ Render
  \/ SubmitButton
  \/ KeyEnter
  \/ POST
  \/ UpstreamEvent
  \/ UpstreamDone
  \/ UpstreamError
  \/ FetchResolve
  \/ FetchFail
  \/ ReadChunk
  \/ ReadDone
  \/ ReadError

Spec == Init /\ [][Next]_vars

\* A pending reader.read() settles while bytes are waiting: a step of
\* ReadChunk that takes some of them, or of ReadError that rejects.
ReadSettles ==
  /\ pc = "reading"
  /\ \E n \in 1..Len(wire) : wire' = SubSeq(wire, n + 1, Len(wire))

\* The scheduling a turn relies on: the endpoint answers a request it was
\* sent, the upstream stream ends or fails, the fetch promise settles, a read
\* of a body that has bytes, has ended or was aborted settles, and React
\* renders a changed state.  A connection is never required to be lost.
Fairness ==
  /\ WF_vars(POST)
  /\ WF_vars(UpstreamDone \/ UpstreamError)
  /\ WF_vars(FetchResolve)
  /\ WF_wire(ReadSettles)
  /\ WF_vars(ReadDone)
  /\ WF_vars(ReadError /\ stream = "errored" /\ wire = <<>>)
  /\ WF_vars(Render)

SpecLive == Init /\ [][Next]_vars /\ Fairness

\* The endpoint serving arbitrary HTTP clients.
NextRelay ==
  \/ Receive
  \/ POST
  \/ UpstreamEvent
  \/ UpstreamDone
  \/ UpstreamError
  \/ Drain

SpecRelay == Init /\ [][NextRelay]_vars

\* ------------------------------------------- the chat client and any server
\* What a server or an intermediary that does not keep to the line protocol
\* may put into a body: a well-formed line, a line cut short, a record without
\* its newline, a newline.
FragmentSet ==
  {<<"{", "a", "}", LF>>, <<"{", "a", LF>>, <<"{", "a", "}">>, <<LF>>}

\* The server answers the request of the page: an error status, or 200 with a
\* body it will write.
PeerRespond ==
  /\ request # Null
  /\ \E resp \in {StreamResponse, NoValidMessages} :
       /\ response' = resp
       /\ stream' = IF resp.type = "stream" THEN "open" ELSE "none"
  /\ received' = request
  /\ request' = Null
  /\ wire' = <<>>
  /\ delivered' = <<>>
  /\ written' = <<>>
  /\ UNCHANGED <<clientVars, apiKey, upstreamCalled, upstreamMessages, thrown>>

\* The server writes bytes into the body.
PeerSend ==
  /\ stream = "open"
  /\ Len(delivered) < MaxEvents
  /\ \E bytes \in FragmentSet :
       /\ delivered' = Append(delivered, [type |-> "bytes", bytes |-> bytes])
       /\ wire' = wire \o bytes
       /\ written' = written \o bytes
  /\ UNCHANGED <<clientVars, request, response, apiKey, stream, upstreamCalled,
                 upstreamMessages, received, thrown>>

InitClient == Init /\ apiKey

\* The chat page talking to any server; the body ends (UpstreamDone) or is
\* aborted (UpstreamError) as the endpoint's does.
NextClient ==
  \/ Type
  \/ Render
  \/ SubmitButton
  \/ KeyEnter
  \/ PeerRespond
  \/ PeerSend
  \/ UpstreamDone
  \/ UpstreamError
  \/ FetchResolve
  \/ FetchFail
  \/ ReadChunk
  \/ ReadDone
  \/ ReadError

SpecClient == InitClient /\ [][NextClient]_vars

\* ------------------------------------------------------------------ claims
\* The texts of the text deltas among the events evs, in order.
RECURSIVE DeltaTexts(_)
DeltaTexts(evs) ==
  IF evs = <<>> THEN <<>>
  ELSE (IF Head(evs).type = "content_block_delta" /\ Head(evs).delta.type = "text_delta"
        THEN <<Head(evs).delta.text>> ELSE <<>>) \o DeltaTexts(Tail(evs))

\* The content of the pending message the page shows; none shows no content.
PendingContent == IF pendingMessage = Null THEN <<>> ELSE pendingMessage.content

\* The concatenation of the fragments the read loop has processed so far.
ProcessedText == Concat(SubSeq(DeltaTexts(delivered), 1, Len(parsed)))

\* C1: after every fragment the read loop has processed, the published
\* pending content is the concatenation of the texts of the fragments
\* processed so far, in arrival order, however the bytes were split into reads.
C1_PendingIsConcatenation ==
  (pc = "reading" /\ Len(parsed) >= 1) => PendingContent = ProcessedText

\* The accumulator of the read loop, newMessage.content, is that concatenation
\* throughout, and all of it once the closed body has been read to its end.
AccumulatedIsConcatenation ==
  pc = "reading" =>
    /\ Len(parsed) <= Len(DeltaTexts(delivered))
    /\ newMessage.content = ProcessedText
    /\ (stream = "closed" /\ wire = <<>>) =>
         newMessage.content = Concat(DeltaTexts(delivered))

\* The bytes b read as one chunk by a fresh read loop.
InOneChunk(b) == Chunk(<<>>, <<>>, <<>>, b)

\* The lines the endpoint has written for the text deltas among evs.
RECURSIVE WrittenLines(_)
WrittenLines(texts) ==
  IF texts = <<>> THEN <<>>
  ELSE <<(<<"{">> \o Escape(Head(texts)) \o <<"}">>)>> \o WrittenLines(Tail(texts))

\* C2: the lines handed to JSON.parse over the reads of a turn are the lines a
\* single read of the same bytes would have handed over, once each and in
\* order, and they are the lines the endpoint wrote; the text after the last
\* newline is carried over and no more.
C2_ReassembledParsedOnce ==
  pc = "reading" =>
    /\ parsed = InOneChunk(bytesRead).parsed
    /\ buffer = InOneChunk(bytesRead).buffer
    /\ decoder = InOneChunk(bytesRead).decoder
    /\ Len(parsed) <= Len(DeltaTexts(delivered))
    /\ parsed = SubSeq(WrittenLines(DeltaTexts(delivered)), 1, Len(parsed))

\* A line that arrived in two or more reads has been parsed.
C2_Witness == pc = "reading" /\ reassembled /\ Len(parsed) >= 1

\* A message of a request body that the filter lets through.
Valid(msg) == Trim(msg.content) # <<>> /\ SubSeq(msg.content, 1, Len(Sentinel)) # Sentinel

\* The subsequence of valid messages, each as {role, trimmed content}.
RECURSIVE Kept(_)
Kept(msgs) ==
  IF msgs = <<>> THEN <<>>
  ELSE (IF Valid(Head(msgs))
        THEN <<[role |-> Head(msgs).role, content |-> Trim(Head(msgs).content)]>>
        ELSE <<>>) \o Kept(Tail(msgs))

HasList == received # Null /\ received.body = "messages"

\* C3: for a received history with at least one valid message, the list sent
\* upstream is the subsequence of the received messages that are neither
\* empty after trimming nor begin with the sentinel, in their order, each as
\* {role, trimmed content}; with the API key set, it is sent.
C3_FilteredSubsequenceSent ==
  (HasList /\ \E i \in 1..Len(received.messages) : Valid(received.messages[i])) =>
    /\ upstreamCalled => upstreamMessages = Kept(received.messages)
    /\ apiKey => upstreamCalled

\* A history with an empty, a sentinel and a padded message around was sent on.
C3_Witness ==
  /\ HasList
  /\ upstreamCalled
  /\ Len(upstreamMessages) >= 1
  /\ Len(upstreamMessages) < Len(received.messages)
  /\ \E i \in 1..Len(received.messages) :
       Valid(received.messages[i]) /\ Trim(received.messages[i].content) # received.messages[i].content

\* The received request carries a message list that the filter empties.
EmptyAfterFilter == HasList /\ Kept(received.messages) = <<>>

\* C4 as stated: every request whose filtered message list is empty is
\* answered with HTTP 400 and opens no upstream stream.
C4_EmptyListIs400 ==
  EmptyAfterFilter => (response.status = 400 /\ ~upstreamCalled /\ stream = "none")

\* C4 amended: a request whose filtered message list is empty never opens an
\* upstream stream; it is answered with HTTP 400 when the API key is set, and
\* with the missing-key error, status 500, when it is not.
C4_EmptyListNeverUpstream ==
  EmptyAfterFilter =>
    /\ ~upstreamCalled /\ stream = "none" /\ written = <<>>
    /\ response.type = "json"
    /\ response.status = IF apiKey THEN 400 ELSE 500
    /\ apiKey => response.error = <<"No valid messages to send">>

\* A history of only blank and sentinel messages was answered with 400.
C4_Witness ==
  /\ EmptyAfterFilter
  /\ Len(received.messages) >= 2
  /\ response.status = 400

ErrorOutcomes == {"not ok", "fetch rejected", "no reader", "read failed"}

\* C6: a turn that fails (response not OK, no body reader, fetch rejected, a
\* read that fails) leaves the client idle, not loading, with the history that
\* was posted followed by exactly one assistant message with the apology text,
\* right after the turn's user message, and with none of the accumulated
\* assistant content.
C6_ErrorAppendsOneApology ==
  outcome \in ErrorOutcomes =>
    /\ pc = "idle" /\ isLoading = FALSE /\ active = 0
    /\ Len(messages) = Len(posted) + 1
    /\ SubSeq(messages, 1, Len(posted)) = posted
    /\ messages[Len(posted)] = userMessage
    /\ messages[Len(messages)].role = "assistant"
    /\ messages[Len(messages)].content = ApologyText

\* A read failed after assistant content had been accumulated and shown.
C6_Witness ==
  /\ outcome = "read failed"
  /\ newMessage.content # <<>>
  /\ Len(messages) >= 2

\* C7: at most one handleSubmit call is running at any time, and while one is,
\* the page is loading, the one request it posted is the only one, and the
\* history is what that call posted: a submit in between changes nothing.
C7_OneRequestInFlight ==
  /\ active <= 1
  /\ active = (IF pc = "idle" THEN 0 ELSE 1)
  /\ pc # "idle" => (isLoading /\ rendered.isLoading /\ messages = posted)
  /\ request # Null => pc = "fetching"

\* Enter was pressed on a non-blank input while the response was streaming.
C7_Witness ==
  /\ pc = "reading"
  /\ lastSubmit = "refused: loading"
  /\ bytesRead # <<>>

\* C8: when the stream ends normally the history is what was posted followed
\* by one assistant message holding the accumulated content, if that content
\* is non-empty after trimming, and is exactly what was posted otherwise.
C8_CommitOrDiscard ==
  /\ outcome = "committed" =>
       /\ Trim(newMessage.content) # <<>>
       /\ newMessage.role = "assistant"
       /\ messages = Append(posted, newMessage)
  /\ outcome = "discarded" =>
       /\ Trim(newMessage.content) = <<>>
       /\ messages = posted
  /\ outcome \in {"committed", "discarded"} => (pc = "idle" /\ ~isLoading)

\* A stream of white space only ended and nothing was appended.
C8_Witness ==
  /\ outcome = "discarded"
  /\ newMessage.content # <<>>
  /\ messages = posted

\* C9: whenever no request is outstanding the pending message is null.
C9_IdleHasNoPending ==
  (pc = "idle" /\ ~isLoading) => pendingMessage = Null

\* C10: what the endpoint has written is one newline-terminated JSON line per
\* text delta received, in arrival order, each parsing back to that delta's
\* text, and nothing else; a stream that completes is closed on exactly that.
C10_OneLinePerTextDelta ==
  LET texts == DeltaTexts(delivered)
      decoded == Decode(written)
      lines == Split(decoded.text)
  IN  /\ decoded.pending = <<>>
      /\ Len(lines) = Len(texts) + 1
      /\ lines[Len(lines)] = <<>>
      /\ \A i \in 1..Len(texts) :
           JSONParse(lines[i]) = [ok |-> TRUE, type |-> "content_block_delta", text |-> texts[i]]

\* A completed stream of a newline delta and an event of another type.
C10_Witness ==
  /\ stream = "closed"
  /\ Len(delivered) = 2
  /\ DeltaTexts(delivered) = <<(<<LF>>)>>

\* The classification the catch block of POST applies to error.
IsRateLimit(error) == Includes(error.message, "rate limit")

IsConnectionFailure(error) ==
  Includes(error.message, "Connection error") \/ error.name = "APIConnectionError"

IsAuthenticationFailure(error) == Includes(error.message, "authentication")

\* The response to a thrown error is one JSON object {error, details} and no
\* body stream exists.
SingleJSONError ==
  /\ response # Null
  /\ response.type = "json"
  /\ response.details = thrown.name
  /\ stream = "none"
  /\ written = <<>>

\* C11 as stated: every error thrown before the response is returned is
\* answered by one JSON object, with status 503 for a connection failure, 401
\* for an authentication failure and 500 with the raw text for any other error.
C11_StatusByErrorKind ==
  thrown # NoError =>
    /\ SingleJSONError
    /\ IsConnectionFailure(thrown) => response.status = 503
    /\ IsAuthenticationFailure(thrown) /\ ~IsConnectionFailure(thrown)
         => response.status = 401
    /\ ~IsConnectionFailure(thrown) /\ ~IsAuthenticationFailure(thrown)
          /\ ~IsRateLimit(thrown)
         => response.status = 500 /\ response.error = thrown.message

\* C11 amended: the statuses 503 and 401 are given only to errors whose message
\* does not contain "rate limit"; a connection failure precedes an
\* authentication failure; any other error gets 500 with its raw text.
C11_StatusByErrorKindUnlessRateLimit ==
  thrown # NoError =>
    /\ SingleJSONError
    /\ ~IsRateLimit(thrown) /\ IsConnectionFailure(thrown) => response.status = 503
    /\ ~IsRateLimit(thrown) /\ ~IsConnectionFailure(thrown)
          /\ IsAuthenticationFailure(thrown)
         => response.status = 401
    /\ ~IsRateLimit(thrown) /\ ~IsConnectionFailure(thrown)
          /\ ~IsAuthenticationFailure(thrown)
         => response.status = 500 /\ response.error = thrown.message

\* An APIConnectionError with an unrecognized message was answered 503.
C11_Witness ==
  /\ thrown # NoError
  /\ thrown.name = "APIConnectionError"
  /\ thrown.message = <<"overloaded">>
  /\ response # Null
  /\ response.status = 503

\* C12: when the upstream stream fails after streaming began, the body is
\* errored and stays so, nothing is written by or after the failure, the
\* response stays the streamed one; a JSON error response exists only when no
\* body stream was opened and no byte was written.
C12_AbortedNotClosed ==
  [][/\ stream' = "errored"
         => /\ written' = written
            /\ delivered' = delivered
            /\ response' = response
            /\ response.type = "stream"
            /\ Len(wire') <= Len(wire)
     /\ stream = "errored" => stream' \in {"errored", "none"}
     /\ (response' # Null /\ response'.type = "json")
         => stream' = "none" /\ written' = <<>>]_vars

\* The stream failed after one text delta had been forwarded.
C12_Witness ==
  /\ stream = "errored"
  /\ Len(DeltaTexts(delivered)) >= 1
  /\ written # <<>>
  /\ response.type = "stream"

\* C15: every thrown error whose message contains "rate limit" is answered by
\* one JSON object with the rate-limit message and status 500.
C15_RateLimitIs500 ==
  (thrown # NoError /\ IsRateLimit(thrown)) =>
    /\ SingleJSONError
    /\ response.status = 500
    /\ response.error = <<"Rate limit exceeded. Please try again in a moment.">>

\* An APIConnectionError whose message mentions the rate limit was answered.
C15_Witness ==
  /\ thrown # NoError
  /\ thrown.name = "APIConnectionError"
  /\ IsRateLimit(thrown)
  /\ response # Null
  /\ response.status = 500

\* C18: every message sent upstream has non-empty content without leading or
\* trailing whitespace that does not begin with the sentinel.
C18_UpstreamContentsClean ==
  upstreamCalled =>
    \A i \in 1..Len(upstreamMessages) :
      LET content == upstreamMessages[i].content
      IN  /\ content # <<>>
          /\ Trim(content) = content
          /\ ~StartsWith(content, Sentinel)

\* C14: the list posted on a turn is the history as it stood just before the
\* submit, followed by the new user message, and that list is the body of the
\* request.
C14_PostsFullHistory ==
  /\ [](request # Null => request.messages = posted)
  /\ [][turns' = turns + 1
         => /\ posted' = Append(messages, userMessage')
            /\ userMessage'.role = "user"
            /\ request' = [body |-> "messages", messages |-> posted']]_vars

\* A second turn posted the user message and the committed reply of the first
\* ahead of its own user message.
C14_Witness ==
  /\ turns = 2
  /\ pc = "fetching"
  /\ request # Null
  /\ Len(posted) = 3
  /\ posted[2].role = "assistant"
  /\ posted[2].content # ApologyText

\* C17: no message sent upstream is a synthetic error message of the client.
C17_ApologyNeverForwarded ==
  upstreamCalled =>
    \A i \in 1..Len(upstreamMessages) :
      upstreamMessages[i].content # ApologyText

\* The endpoint received a history holding the apology of a failed turn and
\* opened the upstream stream without it.
C17_Witness ==
  /\ upstreamCalled
  /\ received # Null
  /\ \E i \in 1..Len(received.messages) : received.messages[i] = ErrorMessage(1)
  /\ Len(upstreamMessages) = Len(received.messages) - 1

IsPrefix(s, t) == Len(s) <= Len(t) /\ SubSeq(t, 1, Len(s)) = s

\* C19: every step keeps the history as a prefix and appends at most one
\* entry; starting a turn appends the user message, and the only other append
\* is one assistant message by the step that ends the turn.
C19_HistoryAppendOnly ==
  [][/\ IsPrefix(messages, messages')
     /\ Len(messages') <= Len(messages) + 1
     /\ turns' = turns + 1
         => /\ pc = "idle"
            /\ messages' = Append(messages, userMessage')
            /\ userMessage'.role = "user"
     /\ (turns' = turns /\ messages' # messages)
         => /\ pc # "idle"
            /\ pc' = "idle"
            /\ messages = posted
            /\ messages'[Len(messages')].role = "assistant"]_vars

\* Two turns are over, one grew the history by one entry and one by two.
C19_Witness ==
  /\ turns = 2
  /\ pc = "idle"
  /\ Len(messages) = 3

\* The phases of a turn: Sending is pc = "fetching", Streaming is
\* pc = "reading", and a turn ends with one outcome.
TurnOutcomes == {"committed", "discarded"} \cup ErrorOutcomes

\* C16: every turn that was started returns to idle, with isLoading false and
\* the submit control rendered enabled again, and with one of the outcomes;
\* a turn goes from idle to Sending, from Sending to Streaming only on an ok
\* response, and from either back to idle.
C16_TurnReturnsToIdle ==
  /\ (pc # "idle") ~> (/\ pc = "idle"
                        /\ ~isLoading
                        /\ ~rendered.isLoading
                        /\ outcome \in TurnOutcomes)
  /\ [][pc' # pc
         => \/ pc = "idle" /\ pc' = "fetching" /\ isLoading'
            \/ /\ pc = "fetching" /\ pc' = "reading"
               /\ response.status \in 200..299
            \/ /\ pc \in {"fetching", "reading"} /\ pc' = "idle"
               /\ outcome' \in TurnOutcomes
               /\ outcome' \in {"committed", "discarded"} => pc = "reading"]_vars

\* The second turn was committed after the first had failed.
C16_Witness ==
  /\ turns = 2
  /\ pc = "idle"
  /\ ~isLoading
  /\ ~rendered.isLoading
  /\ outcome = "committed"
  /\ messages[2] = ErrorMessage(1)

\* The lines of the bytes b that are terminated by a newline.
CompleteLines(b) ==
  LET lines == Split(Decode(b).text)
  IN  SubSeq(lines, 1, Len(lines) - 1)

\* The texts of the lines that are well-formed delta records, in order.
RECURSIVE GoodTexts(_)
GoodTexts(lines) ==
  IF lines = <<>> THEN <<>>
  ELSE (IF JSONParse(Head(lines)).ok /\ JSONParse(Head(lines)).type = "content_block_delta"
        THEN <<JSONParse(Head(lines)).text>> ELSE <<>>) \o GoodTexts(Tail(lines))

\* The lines that are not blank.
RECURSIVE NonBlank(_)
NonBlank(lines) ==
  IF lines = <<>> THEN <<>>
  ELSE (IF Trim(Head(lines)) # <<>> THEN <<Head(lines)>> ELSE <<>>) \o NonBlank(Tail(lines))

\* The lines completed by the read that took bytesRead to bytesRead'.
NewLines ==
  SubSeq(CompleteLines(bytesRead'), Len(CompleteLines(bytesRead)) + 1,
         Len(CompleteLines(bytesRead')))

\* C13: a read leaves the turn streaming and appends to the content exactly
\* the texts of the well-formed delta lines it completed, in order: a line
\* that is not valid JSON adds nothing and the lines after it still append.
C13_MalformedLineSkipped ==
  [][Len(bytesRead') > Len(bytesRead)
     => /\ pc' = "reading"
        /\ messages' = messages
        /\ newMessage'.content = newMessage.content \o Concat(GoodTexts(NewLines))
        /\ Concat(GoodTexts(NewLines)) # <<>>
           => pendingMessage' # Null /\ pendingMessage'.content = newMessage'.content
        /\ Concat(GoodTexts(NewLines)) = <<>> => pendingMessage' = pendingMessage]_vars

\* A line that is not valid JSON was parsed, a well-formed line after it was
\* parsed too and its text is the content.
C13_Witness ==
  /\ pc = "reading"
  /\ Len(parsed) = 2
  /\ ~JSONParse(parsed[1]).ok
  /\ JSONParse(parsed[2]).ok
  /\ newMessage.content = <<"a">>
  /\ pendingMessage # Null
  /\ pendingMessage.content = <<"a">>

\* C20: the lines handed to JSON.parse are the non-blank lines terminated by a
\* newline and the content is their texts, whatever the buffer holds; the
\* step that ends the stream parses nothing, commits that content or nothing
\* and adds nothing to the pending message.
C20_TrailingBufferDiscarded ==
  /\ [](pc = "reading"
        => /\ parsed = NonBlank(CompleteLines(bytesRead))
           /\ newMessage.content = Concat(GoodTexts(CompleteLines(bytesRead))))
  /\ [][(pc = "reading" /\ pc' = "idle")
        => /\ newMessage' = newMessage
           /\ pendingMessage' \in {Null, pendingMessage}
           /\ outcome' = "committed" => messages' = Append(messages, newMessage)
           /\ outcome' = "discarded" => messages' = messages
           /\ outcome' \in ErrorOutcomes
              => messages' = Append(messages, ErrorMessage(userMessage.id + 1))]_vars

\* The body ended after a record without its newline: the turn was discarded
\* with the record still in the buffer, and nothing was committed.
C20_Witness ==
  /\ pc = "idle"
  /\ outcome = "discarded"
  /\ buffer = <<"{", "a", "}">>
  /\ Len(messages) = 1
  /\ pendingMessage = Null

====
